---- MODULE Spec2Model ----
(***************************************************************************)
(* Model of github/util.py: the GraphQL query helper (query_graphql), the  *)
(* three read operations built on it (get_user_name, get_gists,            *)
(* get_number_of_gists) and the paginating aggregator (get_all_gists),     *)
(* run against a stub GitHub server that holds a finite list of gists      *)
(* split into pages.                                                       *)
(***************************************************************************)
EXTENDS Integers, Sequences, FiniteSets, TLC

(* ------------------------------ bounds --------------------------------- *)

\* largest number of gists the stub server holds
MaxGists == 3

\* largest target size a caller passes (one more than the server can hold)
MaxSize == MaxGists + 1

\* cap on the number of queries of one run; never reached by the code
\* (see QueryCapNotReached), it only keeps a looping variant finite
MaxQueries == 2 * MaxGists + 6

(* ----------------------------- constants ------------------------------- *)

\* get_gists(cursor=None, size=100): the page size put in every page query
PageSize == 100

\* Python's None for a cursor (end_cursor = None)
NoCursor == "<None>"

\* Python's None for the size argument (size=None)
NoSize == -1

\* Python's None for the after_date argument (after_date=None)
NoDate == -1

(* --------------------------- dates (strptime) -------------------------- *)

\* a pushedAt string "YYYY-MM-DDT00:00:00Z", held as its fields <<Y, M, D>>
DateStrings == { <<2018, 1, 1>>, <<2018, 2, 1>>, <<2018, 3, 1>> }

\* datetime.strptime(gist[filter_on], DATE_FORMAT): the instant a string
\* denotes, as a number that orders the way datetime objects compare
ParseDate(s) == (s[1] * 12 + (s[2] - 1)) * 31 + (s[3] - 1)

\* the cutoffs a caller passes: the instants of the server's dates and one
\* instant before all of them
Cutoffs == { ParseDate(s) : s \in DateStrings } \cup { ParseDate(<<2017, 12, 31>>) }

(* ------------------------------ the server ----------------------------- *)

\* a gist record {id, pushedAt} (description and name play no part)
Gist(i, s) == [id |-> i, pushedAt |-> s]

\* every list of at most MaxGists gists dated in D, ids in server order
DatasetsOver(D) ==
  UNION { { [i \in 1..n |-> Gist(i, f[i])] : f \in [1..n -> D] } : n \in 0..MaxGists }

Datasets == DatasetsOver(DateStrings)

\* the dates of the servers with an empty-string cursor: one at a cutoff or
\* before it, one after it
CursorDateStrings == { <<2018, 2, 1>>, <<2018, 3, 1>> }

\* every way to cut a list into consecutive non-empty pages
RECURSIVE Splits(_)
Splits(recs) ==
  IF recs = <<>> THEN { <<>> }
  ELSE UNION { { <<SubSeq(recs, 1, k)>> \o rest :
                   rest \in Splits(SubSeq(recs, k + 1, Len(recs))) } : k \in 1..Len(recs) }

\* the pages of a server: an empty account has one empty page
PagesOf(recs) == IF recs = <<>> THEN { << <<>> >> } ELSE Splits(recs)

\* the opaque cursor GitHub gives for the end of page i
Cursor(i) == "c" \o ToString(i)

VARIABLES
  pages,          \* server: the pages, each a list of gists
  cursorOf,       \* server: the endCursor it reports for each page
  op,             \* the function the caller invoked
  pc,             \* position in that function
  sizeArg,        \* get_all_gists: the size argument as passed
  size,           \* get_all_gists: the local size (after line 160)
  after_date,     \* get_all_gists: the after_date argument
  end_cursor,     \* get_all_gists: local end_cursor
  gists,          \* get_all_gists: local gists (accumulated result)
  cur_gists,      \* get_all_gists: records of the page not yet iterated
  has_next_page,  \* get_all_gists: local has_next_page
  result,         \* <<v>> once the call returned v, <<>> otherwise
  err,            \* the exception that left the call, "" if none
  qlog            \* every query sent so far with the response it got

vars == << pages, cursorOf, op, pc, sizeArg, size, after_date, end_cursor,
           gists, cur_gists, has_next_page, result, err, qlog >>

\* the server's whole list, in server order
RECURSIVE Flatten(_)
Flatten(ps) == IF ps = <<>> THEN <<>> ELSE Head(ps) \o Flatten(Tail(ps))

AllGists == Flatten(pages)

\* gists.totalCount
TotalCount == Len(AllGists)

NumPages == Len(pages)

(* --------------------------- query_graphql ----------------------------- *)

\* The decoded JSON bodies the endpoint may answer with, by shape:
\*   "absent"      no `data` key at all, e.g. {"errors": [...]}
\*   "null"        {"data": null}
\*   "empty"       {"data": {}}
\*   "noviewer"    `data` is a non-empty mapping without the key `viewer`
\*   "viewernull"  {"data": {"viewer": null}}
\*   "nofield"     `viewer` is a mapping without the key the caller reads
\*   "ok"          the full shape the caller expects
Shapes == { "absent", "null", "empty", "noviewer", "viewernull", "nofield", "ok" }

\* res.get('data', False) is falsy
DataFalsy(shape) == shape \in { "absent", "null", "empty" }

\* the assert of query_graphql fails
AssertFailsKeyOnly(shape) == shape = "absent"

AssertFailsNever(shape) == FALSE

AssertFails(shape) == DataFalsy(shape)

\* what res['data']['viewer'][field]... raises in the caller, "" if nothing:
\* a missing key is a KeyError, subscripting None is a TypeError
LookupError(shape) ==
  CASE shape = "absent"     -> "KeyError"
    [] shape = "null"       -> "TypeError"
    [] shape = "empty"      -> "KeyError"
    [] shape = "noviewer"   -> "KeyError"
    [] shape = "viewernull" -> "TypeError"
    [] shape = "nofield"    -> "KeyError"
    [] OTHER                -> ""

\* the exception a caller of query_graphql ends with for a response shape
QueryError(shape) ==
  IF AssertFails(shape) THEN "AssertionError" ELSE LookupError(shape)

(* ------------------------------ get_gists ------------------------------ *)

\* `if not cursor` is false: the cursor is neither None nor the empty string
CursorGiven(cursor) == cursor # NoCursor /\ cursor # ""

\* the query get_gists builds: first_payload, or payload_template with the
\* cursor put in after:"..."
GistsPayload(cursor, first) ==
  IF ~CursorGiven(cursor)
  THEN [kind |-> "first_payload", first |-> first, after |-> NoCursor]
  ELSE [kind |-> "payload_template", first |-> first, after |-> cursor]

\* the page the server serves for a page query: page 1 without after:,
\* else the page that follows the one ending at the cursor; 0 when there is
\* none (the server then answers with no edges)
ServedPage(payload) ==
  IF payload.kind = "first_payload" THEN 1
  ELSE LET ends == { i \in 1..NumPages : cursorOf[i] = payload.after }
       IN IF ends = {} THEN 0
          ELSE LET i == CHOOSE j \in ends : TRUE
               IN IF i < NumPages THEN i + 1 ELSE 0

\* the (gists, end_cursor, has_next_page) get_gists unwraps from page k
PageResult(k) ==
  IF k = 0 THEN [gists |-> <<>>, end_cursor |-> NoCursor, has_next_page |-> FALSE]
  ELSE [gists |-> pages[k], end_cursor |-> cursorOf[k], has_next_page |-> k < NumPages]

\* one entry of the query log
\* (held: how many records the caller had accumulated when it sent the query)
LogEntry(kind, payload, shape, page, endc, held) ==
  [kind |-> kind, payload |-> payload, shape |-> shape, page |-> page,
   end_cursor |-> endc, held |-> held]

\* the fixed payloads of get_user_name and get_number_of_gists
LoginPayload == [kind |-> "viewer_login", first |-> 0, after |-> NoCursor]

CountPayload == [kind |-> "total_count", first |-> 0, after |-> NoCursor]

(* ---------------------------- get_all_gists ---------------------------- *)

\* `if not size`: size is None or 0
SizeUnset(s) == s = NoSize \/ s = 0

\* `after_date and pushed_date <= after_date` (a datetime is always truthy)
CutoffHitStrict(after, pushed_date) == after # NoDate /\ pushed_date < after

CutoffHit(after, pushed_date) == after # NoDate /\ pushed_date <= after

\* `len(gists) >= size`
SizeReachedLate(gs, sz) == Len(gs) > sz

SizeReachedEarly(gs, sz) == Len(gs) + 1 >= sz

SizeReached(gs, sz) == Len(gs) >= sz

\* `if not has_next_page: break`
StopPagingInverted(has_next) == has_next

StopPagingNever(has_next) == FALSE

StopPaging(has_next) == ~has_next

Done == pc \in { "returned", "raised" }

\* the caller-visible end of a call: `return v`
Return(v) ==
  /\ pc' = "returned"
  /\ result' = <<v>>
  /\ err' = ""

\* an exception leaves the call: nothing is returned
Raise(e) ==
  /\ pc' = "raised"
  /\ result' = <<>>
  /\ err' = e

(* ------------------------------- states -------------------------------- *)

InitCall ==
  /\ op = "none"
  /\ pc = "idle"
  /\ sizeArg = NoSize
  /\ size = NoSize
  /\ after_date = NoDate
  /\ end_cursor = NoCursor
  /\ gists = <<>>
  /\ cur_gists = <<>>
  /\ has_next_page = FALSE
  /\ result = <<>>
  /\ err = ""
  /\ qlog = <<>>

\* a GitHub-like server: every non-empty page ends at its own non-empty
\* cursor; the only page of an empty account has endCursor null
Init ==
  /\ \E recs \in Datasets : pages \in PagesOf(recs)
  /\ cursorOf = [i \in 1..Len(pages) |-> IF pages[i] = <<>> THEN NoCursor ELSE Cursor(i)]
  /\ InitCall

\* a server that may also report the empty string as the endCursor of one
\* page e (the caller never gets to see a second one: it is sent back to
\* page 1 at the first); e = 0 is the GitHub-like server
InitCursor ==
  /\ \E recs \in DatasetsOver(CursorDateStrings) : pages \in PagesOf(recs)
  /\ \E e \in 0..Len(pages) :
       cursorOf = [i \in 1..Len(pages) |->
                     IF i = e THEN ""
                     ELSE IF pages[i] = <<>> THEN NoCursor ELSE Cursor(i)]
  /\ InitCall

(* ------------------------------- actions ------------------------------- *)

\* get_user_name(): one query, then res['data']['viewer']['login']
GetUserName ==
  /\ pc = "idle"
  /\ op' = "get_user_name"
  /\ \E shape \in Shapes :
       /\ qlog' = Append(qlog, LogEntry("login", LoginPayload, shape, 0, NoCursor, 0))
       /\ IF QueryError(shape) = "" THEN Return("octocat") ELSE Raise(QueryError(shape))
  /\ UNCHANGED << pages, cursorOf, sizeArg, size, after_date, end_cursor,
                  gists, cur_gists, has_next_page >>

\* the caller invokes get_all_gists(size=s, after_date=d)
CallGetAllGists ==
  /\ pc = "idle"
  /\ op' = "get_all_gists"
  /\ \E s \in { NoSize } \cup 0..MaxSize : sizeArg' = s /\ size' = s
  /\ after_date' \in { NoDate } \cup Cutoffs
  /\ pc' = "resolve"
  /\ UNCHANGED << pages, cursorOf, end_cursor, gists, cur_gists, has_next_page,
                  result, err, qlog >>

\* lines 159-163, size unset: size = get_number_of_gists()
CountGists ==
  /\ pc = "resolve"
  /\ SizeUnset(size)
  /\ \E shape \in Shapes :
       /\ qlog' = Append(qlog, LogEntry("count", CountPayload, shape, 0, NoCursor, 0))
       /\ IF QueryError(shape) = ""
          THEN /\ size' = TotalCount
               /\ pc' = "fetch"
               /\ UNCHANGED << result, err >>
          ELSE /\ Raise(QueryError(shape))
               /\ UNCHANGED size
  /\ end_cursor' = NoCursor
  /\ gists' = <<>>
  /\ UNCHANGED << pages, cursorOf, op, sizeArg, after_date, cur_gists, has_next_page >>

\* lines 159-163, size given
KeepSize ==
  /\ pc = "resolve"
  /\ ~SizeUnset(size)
  /\ end_cursor' = NoCursor
  /\ gists' = <<>>
  /\ pc' = "fetch"
  /\ UNCHANGED << pages, cursorOf, op, sizeArg, size, after_date, cur_gists,
                  has_next_page, result, err, qlog >>

\* line 166: cur_gists, total, end_cursor, has_next_page = get_gists(end_cursor)
FetchPage ==
  /\ pc = "fetch"
  /\ Len(qlog) < MaxQueries
  /\ LET payload == GistsPayload(end_cursor, PageSize)
         k       == ServedPage(payload)
         page    == PageResult(k)
     IN \E shape \in Shapes :
          IF QueryError(shape) = ""
          THEN /\ qlog' = Append(qlog, LogEntry("page", payload, shape, k, page.end_cursor, Len(gists)))
               /\ cur_gists' = page.gists
               /\ end_cursor' = page.end_cursor
               /\ has_next_page' = page.has_next_page
               /\ pc' = "for"
               /\ UNCHANGED << result, err >>
          ELSE /\ qlog' = Append(qlog, LogEntry("page", payload, shape, k, NoCursor, Len(gists)))
               /\ Raise(QueryError(shape))
               /\ UNCHANGED << cur_gists, end_cursor, has_next_page >>
  /\ UNCHANGED << pages, cursorOf, op, sizeArg, size, after_date, gists >>

\* lines 168-170: the record is at or before the cutoff
ReturnAtCutoff ==
  /\ pc = "for"
  /\ cur_gists # <<>>
  /\ CutoffHit(after_date, ParseDate(Head(cur_gists).pushedAt))
  /\ Return(gists)
  /\ UNCHANGED << pages, cursorOf, op, sizeArg, size, after_date, end_cursor,
                  gists, cur_gists, has_next_page, qlog >>

\* lines 172-173: the target size is reached
ReturnAtSize ==
  /\ pc = "for"
  /\ cur_gists # <<>>
  /\ ~CutoffHit(after_date, ParseDate(Head(cur_gists).pushedAt))
  /\ SizeReached(gists, size)
  /\ Return(gists)
  /\ UNCHANGED << pages, cursorOf, op, sizeArg, size, after_date, end_cursor,
                  gists, cur_gists, has_next_page, qlog >>

\* line 174: gists.append(gist)
AppendGist ==
  /\ pc = "for"
  /\ cur_gists # <<>>
  /\ ~CutoffHit(after_date, ParseDate(Head(cur_gists).pushedAt))
  /\ ~SizeReached(gists, size)
  /\ gists' = Append(gists, Head(cur_gists))
  /\ cur_gists' = Tail(cur_gists)
  /\ UNCHANGED << pages, cursorOf, op, pc, sizeArg, size, after_date, end_cursor,
                  has_next_page, result, err, qlog >>

\* lines 176-179: the page is exhausted and was the last one
BreakAndReturn ==
  /\ pc = "for"
  /\ cur_gists = <<>>
  /\ StopPaging(has_next_page)
  /\ Return(gists)
  /\ UNCHANGED << pages, cursorOf, op, sizeArg, size, after_date, end_cursor,
                  gists, cur_gists, has_next_page, qlog >>

\* lines 176, 165: the page is exhausted and another one follows
NextPage ==
  /\ pc = "for"
  /\ cur_gists = <<>>
  /\ ~StopPaging(has_next_page)
  /\ pc' = "fetch"
  /\ UNCHANGED << pages, cursorOf, op, sizeArg, size, after_date, end_cursor,
                  gists, cur_gists, has_next_page, result, err, qlog >>

Next ==
  \/ GetUserName
  \/ CallGetAllGists
  \/ CountGists
  \/ KeepSize
  \/ FetchPage
  \/ ReturnAtCutoff
  \/ ReturnAtSize
  \/ AppendGist
  \/ BreakAndReturn
  \/ NextPage

Spec == Init /\ [][Next]_vars

SpecCursor == InitCursor /\ [][Next]_vars

\* the interpreter always takes the next step of a running call
FairSpecCursor == SpecCursor /\ WF_vars(Next)

(* ------------------------------ the log -------------------------------- *)

\* the page requests of the run, in the order sent
PageRequests == SelectSeq(qlog, LAMBDA e : e.kind = "page")

TypeOK ==
  /\ pc \in { "idle", "resolve", "fetch", "for", "returned", "raised" }
  /\ op \in { "none", "get_user_name", "get_all_gists" }
  /\ Len(result) <= 1
  /\ err \in { "", "AssertionError", "KeyError", "TypeError" }

\* the cap on queries never stops the code
QueryCapNotReached == pc = "fetch" => Len(qlog) < MaxQueries

(* ------------------------------ vocabulary ----------------------------- *)

\* a get_all_gists call has returned
Returned == op = "get_all_gists" /\ pc = "returned"

\* the shape of the response to the last query sent
LastShape == qlog[Len(qlog)].shape

\* the records of a list, as the set of their ids
Ids(gs) == { gs[i].id : i \in 1..Len(gs) }

\* the records whose date is at or before the cutoff d, by position
AtOrBefore(d) == { i \in 1..TotalCount : ParseDate(AllGists[i].pushedAt) <= d }

\* the first of them in server order
FirstAtOrBefore(d) == CHOOSE i \in AtOrBefore(d) : \A j \in AtOrBefore(d) : i <= j

\* the page that holds record i
PageOfGist(i) == CHOOSE k \in 1..NumPages : i \in Ids(pages[k])

\* the records the caller has received in page responses
Fetched ==
  UNION { Ids(pages[PageRequests[i].page]) :
            i \in { j \in 1..Len(PageRequests) :
                      PageRequests[j].shape = "ok" /\ PageRequests[j].page > 0 } }

\* the server's list is in descending order of pushedAt
Descending ==
  \A i \in 1..TotalCount : \A j \in 1..TotalCount :
    i < j => ParseDate(AllGists[i].pushedAt) >= ParseDate(AllGists[j].pushedAt)

\* the records strictly after the cutoff d, in server order
StrictlyAfter(d) == SelectSeq(AllGists, LAMBDA g : ParseDate(g.pushedAt) > d)

(* ------------------------------- claims -------------------------------- *)

\* C1: with no cutoff and a target size s <= the number of gists the server
\* holds, get_all_gists(size=s) returns exactly the first s records of the
\* server's order, in that order, however the records are split into pages.
SizeCap ==
  (Returned /\ sizeArg # NoSize /\ sizeArg <= TotalCount /\ after_date = NoDate)
    => result[1] = SubSeq(AllGists, 1, sizeArg)

\* The same for target sizes of at least 1 (the sizes Python takes as set).
SizeCapPositive ==
  (Returned /\ sizeArg >= 1 /\ sizeArg <= TotalCount /\ after_date = NoDate)
    => result[1] = SubSeq(AllGists, 1, sizeArg)

\* C3: get_all_gists(size=0) with no cutoff against a server holding at
\* least one gist sends exactly one query, a page request, and returns the
\* empty list.
ZeroSizeReturnsEmpty ==
  (Returned /\ sizeArg = 0 /\ after_date = NoDate /\ TotalCount >= 1)
    => /\ Len(PageRequests) = 1
       /\ Len(qlog) = 1
       /\ result[1] = <<>>

\* What the code does with size=0: it counts the gists first and returns
\* all of them.
ZeroSizeIsUnset ==
  (Returned /\ sizeArg = 0 /\ after_date = NoDate)
    => /\ qlog[1].kind = "count"
       /\ result[1] = AllGists

FirstPageWithoutNext ==
  CHOOSE k \in 1..NumPages :
    /\ ~PageResult(k).has_next_page
    /\ \A j \in 1..(k - 1) : PageResult(j).has_next_page

PaginationStop ==
  (Returned /\ after_date = NoDate /\ (sizeArg = NoSize \/ sizeArg >= TotalCount))
    => Len(PageRequests) = FirstPageWithoutNext

\* hasNextPage=false on page 2: the call returned after 2 page requests
PaginationStopWitness ==
  /\ Returned
  /\ after_date = NoDate
  /\ sizeArg = NoSize
  /\ FirstPageWithoutNext = 2
  /\ Len(PageRequests) = 2

\* C5: a query of a get_all_gists call (the count query or any page
\* request) answered without a `data` field is the last query of the call;
\* the call ends with the assertion error of query_graphql and returns
\* nothing, whatever it had accumulated.
NoPartialResults ==
  op = "get_all_gists" =>
    \A i \in 1..Len(qlog) :
      qlog[i].shape = "absent" =>
        /\ i = Len(qlog)
        /\ pc = "raised"
        /\ err = "AssertionError"
        /\ result = <<>>

\* the second page request fails after records were accumulated
NoPartialResultsWitness ==
  /\ op = "get_all_gists"
  /\ pc = "raised"
  /\ Len(PageRequests) = 2
  /\ LastShape = "absent"
  /\ gists # <<>>

\* C6 as stated: a call ends with the assertion error only when the
\* response has no `data` field; with a `data` field of any value and the
\* expected nested fields missing, it ends with a key-lookup error.
AssertOnlyWithoutDataKey ==
  pc = "raised" =>
    /\ err = "AssertionError" <=> LastShape = "absent"
    /\ LastShape \in { "null", "empty", "noviewer", "nofield" } => err = "KeyError"

\* C6 as amended: a call ends with the assertion error exactly when the
\* response has no `data` field or a falsy one (null, an empty mapping);
\* when `data` is a non-empty mapping with an expected nested key missing,
\* query_graphql returns and the caller ends with a key-lookup error.
AssertOnFalsyData ==
  /\ pc = "raised" =>
       /\ err = "AssertionError" <=> LastShape \in { "absent", "null", "empty" }
       /\ LastShape \in { "noviewer", "nofield" } => err = "KeyError"
  /\ (Done /\ LastShape \in { "absent", "null", "empty", "noviewer", "nofield" })
       => pc = "raised"

\* get_gists got {"data": {}} on a second page: the assertion error
AssertOnFalsyDataWitness ==
  /\ op = "get_all_gists"
  /\ pc = "raised"
  /\ Len(PageRequests) = 2
  /\ LastShape = "empty"
  /\ err = "AssertionError"

\* C7: in one get_all_gists call the first page request carries no cursor,
\* every later one carries exactly the endCursor of the page response
\* before it, whatever cursor the server returned (the empty string too),
\* and the pages are requested one after the other, none twice, none
\* skipped.
CursorChain ==
  op = "get_all_gists" =>
    \A i \in 1..Len(PageRequests) :
      LET r == PageRequests[i]
      IN /\ i = 1 => r.payload.kind = "first_payload"
         /\ i > 1 => /\ r.payload.kind = "payload_template"
                     /\ r.payload.after = PageRequests[i - 1].end_cursor
         /\ r.page = i

FetchOnlyBelowTarget ==
  op = "get_all_gists" =>
    \A i \in 1..Len(PageRequests) : PageRequests[i].held < size

\* C9 as amended: every page request is sent while the accumulated result
\* holds at most target-size records, and at most one page request is sent
\* once it holds exactly that many; the result never grows beyond the
\* target size.
FetchAtMostOnceAtTarget ==
  op = "get_all_gists" =>
    /\ \A i \in 1..Len(PageRequests) : PageRequests[i].held <= size
    /\ Cardinality({ i \in 1..Len(PageRequests) : PageRequests[i].held >= size }) <= 1
    /\ pc \in { "fetch", "for", "returned" } => Len(gists) <= size

\* a page ended exactly at the target size and one more page was requested
FetchAtMostOnceAtTargetWitness ==
  /\ Returned
  /\ size >= 1
  /\ Len(PageRequests) = 2
  /\ PageRequests[2].held = size
  /\ Len(result[1]) = size

\* C10: every get_all_gists call ends, by returning or by raising, for
\* every finite server, target size and cutoff.
Termination == (pc = "resolve") ~> Done

\* a call that was served the same page twice and still returned
TerminationWitness ==
  /\ Returned
  /\ Len(PageRequests) >= 3
  /\ PageRequests[1].page = PageRequests[2].page

====
